---- MODULE Spec2Model ----
(***************************************************************************)
(* The service keeper of irishub (app/v3/service/internal/keeper/          *)
(* invocation.go): request contexts, requests and responses, and the fee   *)
(* ledger, as a state machine over the keeper's KV store and the bank.     *)
(*                                                                         *)
(* Coins are amounts of one denomination.  A store prefix is a function    *)
(* whose domain is the set of keys present under that prefix.              *)
(***************************************************************************)
EXTENDS Integers, Sequences, FiniteSets, TLC

VARIABLES
    height,        \* ctx.BlockHeight()
    counter,       \* the value stored under intraTxCounterKey (int16)
    contexts,      \* request contexts, by request context ID
    requests,      \* primary request records, by GetRequestKey
    activeReqs,    \* active requests, by GetActiveRequestKey (per provider)
    expReqs,       \* active requests, by GetRequestsByExpirationIndexKey
    responses,     \* responses, by GetResponseKey
    incomingFees,  \* IncomingFee records, by provider address
    returnedFees,  \* ReturnedFee records, by consumer address
    bank,          \* account balances held by the bank keeper
    bindings,      \* service bindings, by provider address
    ret,           \* the last call: operation, arguments and returned error
    resolution,    \* per request ID: how often its fee went to the consumer / provider
    killed         \* the contexts killed and since touched by Start and Pause only

ctxVars == <<contexts, killed>>
reqVars == <<requests, activeReqs, expReqs, responses, resolution>>
feeVars == <<incomingFees, returnedFees, bank>>
vars == <<height, counter, contexts, requests, activeReqs, expReqs, responses,
          incomingFees, returnedFees, bank, bindings, ret, resolution, killed>>

----------------------------------------------------------------------------
(* Bounds of the model *)

MaxHeight == 1        \* blocks in which requests are made
MaxCtxCounter == 1    \* counter allocations while contexts are explored
MaxRequests == 2      \* requests created

\* the range of Go's int16
MaxInt16 == 32767
MinInt16 == -32768

\* counter allocations explored per block: one may fail between the requests
MaxCounter == MaxRequests + 1

\* the counter values from which an allocation is explored: the first of a
\* block, the last before the int16 maximum and the first after the minimum
CounterExplored(c) ==
    \/ 0 <= c /\ c < MaxCounter
    \/ MaxInt16 - MaxCounter < c
    \/ c < MinInt16 + MaxCounter
IntBits == 6          \* modelled width of Go's int64 / uint64
MaxFee == 4           \* largest IncomingFee record accrued by direct AddIncomingFee calls

(* Parameters read with GetParamSet *)

MaxRequestTimeout == 2
MinDepositMultiple == 2
ServiceFeeTax == <<1, 2>>      \* the tax rate as a fraction in [0,1): 1/2

(* Addresses *)

Consumers == {"c1", "c2"}
Providers == {"p1", "p2", "p3", "p4"}
Profilers == {"c1"}
RequestAccount == "ServiceRequestCoinsAccAddr"
TaxAccount == "ServiceTaxCoinsAccAddr"
DepositAccount == "ServiceDepositCoinsAccAddr"
Accounts == Consumers \cup Providers \cup {RequestAccount, TaxAccount, DepositAccount}

OK == "ok"
EmptyStore == [k \in {} |-> 0]
Put(store, key, value) == (key :> value) @@ store
Del(store, key) == [k \in DOMAIN store \ {key} |-> store[k]]

----------------------------------------------------------------------------
(* Machine integers *)

\* int16(x): Go's wrapping of a value into 16 bits, two's complement
Int16(x) == ((x + 32768) % 65536) - 32768

\* uint64(x) of an int64 x, at the modelled width
Uint64(x) == x % (2 ^ IntBits)

MaxUint64 == (2 ^ IntBits) - 1

\* int64(x) of a uint64 x, at the modelled width
Int64(x) == ((x + 2 ^ (IntBits - 1)) % (2 ^ IntBits)) - 2 ^ (IntBits - 1)

----------------------------------------------------------------------------
(* Bank keeper *)

HasCoins(b, from, amt) == b[from] >= amt

SendCoins(b, from, to, amt) == [[b EXCEPT ![from] = @ - amt] EXCEPT ![to] = @ + amt]

----------------------------------------------------------------------------
(* Intra-block counter *)

GetIntraTxCounter == counter

SetIntraTxCounter(c) == counter' = Int16(c)

----------------------------------------------------------------------------
(* Requests *)

RUNNING == "RUNNING"
PAUSED == "PAUSED"

NewSvcRequest(consumer, provider, serviceFee, profiling) ==
    [consumer |-> consumer, provider |-> provider, serviceFee |-> serviceFee,
     profiling |-> profiling, requestHeight |-> 0, expirationHeight |-> 0,
     counter |-> 0]

\* req.RequestID(), as ConvertRequestID decodes it
RequestID(req) == <<req.expirationHeight, req.requestHeight, req.counter>>

GetRequestKey(req) == <<req.provider, req.requestHeight, req.counter>>

GetActiveRequestKey(req) == <<req.provider, req.requestHeight, req.counter>>

GetRequestsByExpirationIndexKeyByReq(req) ==
    <<req.expirationHeight, req.requestHeight, req.counter>>

SetRequest(store, req) == Put(store, GetRequestKey(req), req)

\* mutant: the request is not entered in the provider's active index
AddActiveRequestSkipped(store, req) == store

AddActiveRequest(store, req) == Put(store, GetActiveRequestKey(req), req)

DeleteActiveRequest(store, req) == Del(store, GetActiveRequestKey(req))

AddRequestExpiration(store, req) == Put(store, GetRequestsByExpirationIndexKeyByReq(req), req)

\* mutant: the expiration index entry is left behind
DeleteRequestExpirationSkipped(store, req) == store

DeleteRequestExpiration(store, req) == Del(store, GetRequestsByExpirationIndexKeyByReq(req))

Result(op, err, key, addr) ==
    [op |-> op, err |-> err, key |-> key, addr |-> addr, args |-> <<>>]

\* the same, for a call whose further arguments are recorded
ResultOf(op, err, key, args) == [Result(op, err, key, "") EXCEPT !.args = args]

\* a call that returns err having written nothing
Fails(op, err, key, addr) ==
    /\ ret' = Result(op, err, key, addr)
    /\ UNCHANGED <<height, counter, ctxVars, reqVars, feeVars, bindings>>

----------------------------------------------------------------------------
(* AddRequest *)

AddRequest(consumer, provider, serviceFee, profiling) ==
    IF provider \notin DOMAIN bindings
    THEN Fails("AddRequest", "UnknownServiceBinding", <<>>, provider)
    ELSE IF ~bindings[provider].Available
    THEN Fails("AddRequest", "ServiceBindingUnavailable", <<>>, provider)
    ELSE IF profiling /\ consumer \notin Profilers
    THEN Fails("AddRequest", "NotProfiler", <<>>, provider)
    ELSE
        LET c == GetIntraTxCounter
            req == [NewSvcRequest(consumer, provider, serviceFee, profiling)
                        EXCEPT !.counter = c,
                               !.requestHeight = height,
                               !.expirationHeight = height + MaxRequestTimeout]
        IN  /\ height <= MaxHeight
            /\ CounterExplored(c)
            /\ Cardinality(DOMAIN requests) < MaxRequests
            /\ SetIntraTxCounter(c + 1)
            /\ IF ~HasCoins(bank, consumer, serviceFee)
               THEN /\ ret' = Result("AddRequest", "InsufficientCoins", RequestID(req), provider)
                    /\ UNCHANGED <<height, ctxVars, reqVars, feeVars, bindings>>
               ELSE /\ bank' = SendCoins(bank, consumer, RequestAccount, serviceFee)
                    /\ requests' = SetRequest(requests, req)
                    /\ activeReqs' = AddActiveRequest(activeReqs, req)
                    /\ expReqs' = AddRequestExpiration(expReqs, req)
                    /\ resolution' = Put(resolution, RequestID(req),
                                         [consumer |-> 0, provider |-> 0])
                    /\ ret' = Result("AddRequest", OK, RequestID(req), provider)
                    /\ UNCHANGED <<height, ctxVars, responses, incomingFees,
                                   returnedFees, bindings>>

GetActiveRequest(requestID) == expReqs[requestID]

HasActiveRequest(requestID) == requestID \in DOMAIN expReqs

----------------------------------------------------------------------------
(* Fee ledger *)

\* mutant: the tax is rounded up
TaxAmountRoundedUp(amount) ==
    (amount * ServiceFeeTax[1] + ServiceFeeTax[2] - 1) \div ServiceFeeTax[2]

\* sdk.NewDecFromInt(amount).Mul(feeTax).TruncateInt()
TaxAmount(amount) == (amount * ServiceFeeTax[1]) \div ServiceFeeTax[2]

FeeOf(fees, address) == IF address \in DOMAIN fees THEN fees[address] ELSE 0

\* the bank and the IncomingFee records after AddIncomingFee, and its error
AddIncomingFee(b, fees, address, coins) ==
    LET taxCoins == TaxAmount(coins) IN
    IF ~HasCoins(b, RequestAccount, taxCoins)
    THEN [err |-> "InsufficientCoins", bank |-> b, incomingFees |-> fees]
    ELSE LET b2 == SendCoins(b, RequestAccount, TaxAccount, taxCoins) IN
         IF coins - taxCoins < 0
         THEN [err |-> "InsufficientFunds", bank |-> b2, incomingFees |-> fees]
         ELSE [err |-> OK, bank |-> b2,
               incomingFees |-> Put(fees, address, FeeOf(fees, address) + (coins - taxCoins))]

AddReturnFee(fees, address, coins) ==
    IF address \notin DOMAIN fees
    THEN Put(fees, address, coins)
    ELSE Put(fees, address, fees[address] + coins)

\* mutant: the record is left behind after the payout
WithdrawFeeKeepsRecord(address) ==
    IF address \notin DOMAIN incomingFees
    THEN Fails("WithdrawFee", "WithdrawFeeNotExists", <<>>, address)
    ELSE IF ~HasCoins(bank, RequestAccount, incomingFees[address])
    THEN Fails("WithdrawFee", "InsufficientCoins", <<>>, address)
    ELSE /\ bank' = SendCoins(bank, RequestAccount, address, incomingFees[address])
         /\ ret' = Result("WithdrawFee", OK, <<>>, address)
         /\ UNCHANGED <<height, counter, ctxVars, reqVars, incomingFees, returnedFees, bindings>>

WithdrawFee(address) ==
    IF address \notin DOMAIN incomingFees
    THEN Fails("WithdrawFee", "WithdrawFeeNotExists", <<>>, address)
    ELSE IF ~HasCoins(bank, RequestAccount, incomingFees[address])
    THEN Fails("WithdrawFee", "InsufficientCoins", <<>>, address)
    ELSE /\ bank' = SendCoins(bank, RequestAccount, address, incomingFees[address])
         /\ incomingFees' = Del(incomingFees, address)
         /\ ret' = Result("WithdrawFee", OK, <<>>, address)
         /\ UNCHANGED <<height, counter, ctxVars, reqVars, returnedFees, bindings>>

RefundFee(address) ==
    IF address \notin DOMAIN returnedFees
    THEN Fails("RefundFee", "ReturnFeeNotExists", <<>>, address)
    ELSE IF ~HasCoins(bank, RequestAccount, returnedFees[address])
    THEN Fails("RefundFee", "InsufficientCoins", <<>>, address)
    ELSE /\ bank' = SendCoins(bank, RequestAccount, address, returnedFees[address])
         /\ returnedFees' = Del(returnedFees, address)
         /\ ret' = Result("RefundFee", OK, <<>>, address)
         /\ UNCHANGED <<height, counter, ctxVars, reqVars, incomingFees, bindings>>

\* a call of the keeper's AddIncomingFee on its own
CallAddIncomingFee(address, coins) ==
    LET r == AddIncomingFee(bank, incomingFees, address, coins) IN
    /\ bank' = r.bank
    /\ incomingFees' = r.incomingFees
    /\ ret' = [Result("AddIncomingFee", r.err, <<>>, address) EXCEPT !.args = [coins |-> coins]]
    /\ UNCHANGED <<height, counter, ctxVars, reqVars, returnedFees, bindings>>

----------------------------------------------------------------------------
(* Slash *)

\* the minimum deposit of a binding: its price times MinDepositMultiple
getMinDeposit(pricing) == pricing * MinDepositMultiple

\* mutant: the binding stays as available as it was
SlashedBindingStaysAvailable(binding, deposit) == [binding EXCEPT !.Deposit = deposit]

\* the binding Slash stores: the deposit left, unavailable when below the minimum
SlashedBinding(binding, deposit) ==
    [binding EXCEPT !.Deposit = deposit,
                    !.Available = IF ~(deposit >= getMinDeposit(binding.Pricing))
                                  THEN FALSE ELSE @]

\* Slash of the binding stored for provider; a panic aborts the call
Slash(provider, slashCoins) ==
    LET binding == bindings[provider]
        deposit == binding.Deposit - slashCoins
    IN
    /\ provider \in DOMAIN bindings
    /\ IF deposit < 0
       THEN /\ ret' = ResultOf("Slash", "panic", provider, [slashCoins |-> slashCoins])
            /\ UNCHANGED <<height, counter, ctxVars, reqVars, feeVars, bindings>>
       ELSE IF ~HasCoins(bank, DepositAccount, slashCoins)
       THEN /\ ret' = ResultOf("Slash", "InsufficientCoins", provider,
                                [slashCoins |-> slashCoins])
            /\ UNCHANGED <<height, counter, ctxVars, reqVars, feeVars, bindings>>
       ELSE /\ bank' = [bank EXCEPT ![DepositAccount] = @ - slashCoins]
            /\ bindings' = Put(bindings, provider, SlashedBinding(binding, deposit))
            /\ ret' = ResultOf("Slash", OK, provider, [slashCoins |-> slashCoins])
            /\ UNCHANGED <<height, counter, ctxVars, reqVars, incomingFees, returnedFees>>

----------------------------------------------------------------------------
(* AddResponse *)

NewSvcResponse(provider, consumer) == [provider |-> provider, consumer |-> consumer]

\* mutant: any provider may answer
ProviderEqualsAny(provider, req) == TRUE

ProviderEquals(provider, req) == provider = req.provider

Credit(res, requestID, who) ==
    IF requestID \in DOMAIN res
    THEN [res EXCEPT ![requestID][who] = @ + 1]
    ELSE res

AddResponse(requestID, provider) ==
    IF ~HasActiveRequest(requestID)
    THEN Fails("AddResponse", "RequestNotActive", requestID, provider)
    ELSE LET req == GetActiveRequest(requestID) IN
         IF ~ProviderEquals(provider, req)
         THEN Fails("AddResponse", "NotMatchingProvider", requestID, provider)
         ELSE LET r == AddIncomingFee(bank, incomingFees, provider, req.serviceFee) IN
              /\ bank' = r.bank
              /\ incomingFees' = r.incomingFees
              /\ ret' = Result("AddResponse", r.err, requestID, provider)
              /\ IF r.err # OK
                 THEN UNCHANGED <<height, counter, ctxVars, reqVars, returnedFees, bindings>>
                 ELSE /\ responses' = Put(responses, requestID,
                                          NewSvcResponse(provider, req.consumer))
                      /\ activeReqs' = DeleteActiveRequest(activeReqs, req)
                      /\ expReqs' = DeleteRequestExpiration(expReqs, req)
                      /\ resolution' = Credit(resolution, RequestID(req), "provider")
                      /\ UNCHANGED <<height, counter, ctxVars, requests,
                                     returnedFees, bindings>>

----------------------------------------------------------------------------
(* Bulk refunds.  An iterator walks a prefix in ascending key order: addresses
   in the order of AddressOrder, request keys by provider, height and counter. *)

AddressOrder == <<"c1", "c2", "p1", "p2", "p3", "p4">>

AddressRank(a) == CHOOSE i \in 1..Len(AddressOrder) : AddressOrder[i] = a

AddressLess(a, b) == AddressRank(a) < AddressRank(b)

RequestKeyLess(k1, k2) ==
    \/ AddressLess(k1[1], k2[1])
    \/ k1[1] = k2[1] /\ k1[2] < k2[2]
    \/ k1[1] = k2[1] /\ k1[2] = k2[2] /\ k1[3] < k2[3]

RECURSIVE AllReturnedFeesIterator(_)
AllReturnedFeesIterator(fees) ==
    IF DOMAIN fees = {} THEN <<>>
    ELSE LET a == CHOOSE x \in DOMAIN fees : \A y \in DOMAIN fees : x = y \/ AddressLess(x, y)
         IN  <<[to |-> a, amt |-> fees[a], id |-> <<>>]>> \o AllReturnedFeesIterator(Del(fees, a))

RECURSIVE AllIncomingFeesIterator(_)
AllIncomingFeesIterator(fees) ==
    IF DOMAIN fees = {} THEN <<>>
    ELSE LET a == CHOOSE x \in DOMAIN fees : \A y \in DOMAIN fees : x = y \/ AddressLess(x, y)
         IN  <<[to |-> a, amt |-> fees[a], id |-> <<>>]>> \o AllIncomingFeesIterator(Del(fees, a))

RECURSIVE ActiveAllRequestQueueIterator(_)
ActiveAllRequestQueueIterator(store) ==
    IF DOMAIN store = {} THEN <<>>
    ELSE LET k == CHOOSE x \in DOMAIN store : \A y \in DOMAIN store : x = y \/ RequestKeyLess(x, y)
         IN  <<[to |-> store[k].consumer, amt |-> store[k].serviceFee,
                id |-> RequestID(store[k])]>>
             \o ActiveAllRequestQueueIterator(Del(store, k))

\* the loop of a bulk refund: pay each entry in turn, stop at the first failure
RECURSIVE RefundEach(_, _)
RefundEach(b, entries) ==
    IF entries = <<>>
    THEN [err |-> OK, bank |-> b, paid |-> <<>>]
    ELSE LET e == Head(entries) IN
         IF ~HasCoins(b, RequestAccount, e.amt)
         THEN [err |-> "InsufficientCoins", bank |-> b, paid |-> <<>>]
         ELSE LET r == RefundEach(SendCoins(b, RequestAccount, e.to, e.amt), Tail(entries))
              IN  [r EXCEPT !.paid = <<e>> \o @]

RECURSIVE CreditAll(_, _, _)
CreditAll(res, entries, who) ==
    IF entries = <<>> THEN res
    ELSE CreditAll(Credit(res, Head(entries).id, who), Tail(entries), who)

RefundReturnedFees ==
    LET r == RefundEach(bank, AllReturnedFeesIterator(returnedFees)) IN
    /\ bank' = r.bank
    /\ ret' = Result("RefundReturnedFees", r.err, <<>>, "")
    /\ UNCHANGED <<height, counter, ctxVars, reqVars, incomingFees, returnedFees, bindings>>

RefundIncomingFees ==
    LET r == RefundEach(bank, AllIncomingFeesIterator(incomingFees)) IN
    /\ bank' = r.bank
    /\ ret' = Result("RefundIncomingFees", r.err, <<>>, "")
    /\ UNCHANGED <<height, counter, ctxVars, reqVars, incomingFees, returnedFees, bindings>>

RefundServiceFees ==
    LET r == RefundEach(bank, ActiveAllRequestQueueIterator(activeReqs)) IN
    /\ bank' = r.bank
    /\ resolution' = CreditAll(resolution, r.paid, "consumer")
    /\ ret' = Result("RefundServiceFees", r.err, <<>>, "")
    /\ UNCHANGED <<height, counter, ctxVars, requests, activeReqs, expReqs, responses,
                   incomingFees, returnedFees, bindings>>

----------------------------------------------------------------------------
(* The block boundary: the surrounding scheduler sweeps the requests that
   expire at this height, returning their fees, and resets the counter. *)

ActiveRequestQueueIterator(h) == {k \in DOMAIN expReqs : k[1] = h}

RECURSIVE SweepReturnFees(_, _)
SweepReturnFees(fees, keys) ==
    IF keys = {} THEN fees
    ELSE LET k == CHOOSE x \in keys : TRUE IN
         SweepReturnFees(AddReturnFee(fees, expReqs[k].consumer, expReqs[k].serviceFee),
                         keys \ {k})

RECURSIVE SweepCredit(_, _)
SweepCredit(res, keys) ==
    IF keys = {} THEN res
    ELSE LET k == CHOOSE x \in keys : TRUE IN
         SweepCredit(Credit(res, k, "consumer"), keys \ {k})

EndBlock ==
    LET expired == ActiveRequestQueueIterator(height) IN
    /\ height <= MaxHeight + MaxRequestTimeout
    /\ returnedFees' = SweepReturnFees(returnedFees, expired)
    /\ activeReqs' = [k \in DOMAIN activeReqs \ {GetActiveRequestKey(expReqs[e]) : e \in expired}
                        |-> activeReqs[k]]
    /\ expReqs' = [k \in DOMAIN expReqs \ expired |-> expReqs[k]]
    /\ resolution' = SweepCredit(resolution, expired)
    /\ counter' = 0
    /\ height' = height + 1
    /\ ret' = Result("EndBlock", OK, <<>>, "")
    /\ UNCHANGED <<ctxVars, requests, responses, incomingFees, bank, bindings>>

----------------------------------------------------------------------------
(* Request contexts *)

ServiceDefinitions == {"svc"}

\* types.ValidateRequestInput: only whether the input passes is used
ValidateRequestInput(input) == input = "in"

\* mutant: a context starts with one batch counted
NewRequestContextOneBatch(serviceName, providers, consumer, input, serviceFeeCap, timeout, repeated, repeatedFrequency, repeatedTotal, batchCounter, state, respThreshold, respHandler) ==
    [serviceName |-> serviceName, providers |-> providers, consumer |-> consumer,
     input |-> input, serviceFeeCap |-> serviceFeeCap, timeout |-> timeout,
     repeated |-> repeated, repeatedFrequency |-> repeatedFrequency,
     repeatedTotal |-> repeatedTotal, batchCounter |-> batchCounter + 1, state |-> state,
     responseThreshold |-> respThreshold, responseHandler |-> respHandler]

NewRequestContext(serviceName, providers, consumer, input, serviceFeeCap, timeout, repeated, repeatedFrequency, repeatedTotal, batchCounter, state, respThreshold, respHandler) ==
    [serviceName |-> serviceName, providers |-> providers, consumer |-> consumer,
     input |-> input, serviceFeeCap |-> serviceFeeCap, timeout |-> timeout,
     repeated |-> repeated, repeatedFrequency |-> repeatedFrequency,
     repeatedTotal |-> repeatedTotal, batchCounter |-> batchCounter, state |-> state,
     responseThreshold |-> respThreshold, responseHandler |-> respHandler]

GenerateRequestContextID(h, c) == <<h, c>>

\* a context call that returns err having written nothing
CtxFails(op, err, id, args) ==
    /\ ret' = ResultOf(op, err, id, args)
    /\ UNCHANGED <<height, counter, ctxVars, reqVars, feeVars, bindings>>

\* a context call that stores ctx under id and returns nil
CtxStores(op, id, args, ctx, nowKilled) ==
    /\ contexts' = Put(contexts, id, ctx)
    /\ killed' = nowKilled
    /\ ret' = ResultOf(op, OK, id, args)
    /\ UNCHANGED <<height, counter, reqVars, feeVars, bindings>>

\* mutant: a timeout of 0 is stored as it is
CreateTimeoutKept(timeout) == timeout

\* the timeout CreateRequestContext stores
CreateTimeout(timeout) == IF timeout = 0 THEN MaxRequestTimeout ELSE timeout

\* the frequency CreateRequestContext goes on with
CreateFrequency(repeated, repeatedFrequency, timeout) ==
    IF repeated
    THEN IF repeatedFrequency = 0 THEN Uint64(timeout) ELSE repeatedFrequency
    ELSE 0

\* mutant: the total of a non-repeated context is kept
CreateTotalKept(repeated, repeatedTotal) == repeatedTotal

\* the total CreateRequestContext goes on with
CreateTotal(repeated, repeatedTotal) == IF repeated THEN repeatedTotal ELSE 0

\* mutant: the frequency is not compared with the timeout
FrequencyNeverTooLow(repeatedFrequency, timeout) == FALSE

FrequencyTooLow(repeatedFrequency, timeout) == repeatedFrequency < Uint64(timeout)

CreateRequestContext(serviceName, providers, consumer, input, serviceFeeCap, timeout, repeated, repeatedFrequency, repeatedTotal, state, respThreshold, respHandler) ==
    LET id == GenerateRequestContextID(height, GetIntraTxCounter)
        args == [serviceName |-> serviceName, providers |-> providers, consumer |-> consumer,
                 input |-> input, serviceFeeCap |-> serviceFeeCap, timeout |-> timeout,
                 repeated |-> repeated, repeatedFrequency |-> repeatedFrequency,
                 repeatedTotal |-> repeatedTotal, state |-> state,
                 respThreshold |-> respThreshold, respHandler |-> respHandler]
    IN
    IF serviceName \notin ServiceDefinitions
    THEN CtxFails("Create", "UnknownServiceDefinition", <<>>, args)
    ELSE IF ~ValidateRequestInput(input)
    THEN CtxFails("Create", "InvalidRequestInput", <<>>, args)
    ELSE IF timeout > MaxRequestTimeout
    THEN CtxFails("Create", "InvalidRequest", <<>>, args)
    ELSE
        LET t == CreateTimeout(timeout)
            f == CreateFrequency(repeated, repeatedFrequency, t)
            n == CreateTotal(repeated, repeatedTotal)
        IN  IF repeated /\ FrequencyTooLow(f, t)
            THEN CtxFails("Create", "InvalidRequest", <<>>, args)
            ELSE CtxStores("Create", id, args,
                              NewRequestContext(serviceName, providers, consumer, input,
                                                serviceFeeCap, t, repeated, f, n, 0,
                                                state, respThreshold, respHandler),
                              killed \ {id})

\* mutant: the total is stored even when none was supplied
UpdatedContextTotalAlways(requestContext, providers, repeatedFreq, repeatedTotal) ==
    [requestContext EXCEPT
        !.providers = IF Len(providers) > 0 THEN providers ELSE @,
        !.repeatedFrequency = IF repeatedFreq > 0 THEN repeatedFreq ELSE @,
        !.repeatedTotal = repeatedTotal]

\* the context UpdateRequestContext stores once its checks have passed
UpdatedContext(requestContext, providers, repeatedFreq, repeatedTotal) ==
    [requestContext EXCEPT
        !.providers = IF Len(providers) > 0 THEN providers ELSE @,
        !.repeatedFrequency = IF repeatedFreq > 0 THEN repeatedFreq ELSE @,
        !.repeatedTotal = IF repeatedTotal # 0 THEN repeatedTotal ELSE @]

UpdateRequestContext(requestContextID, providers, serviceFeeCap, repeatedFreq, repeatedTotal) ==
    LET args == [providers |-> providers, serviceFeeCap |-> serviceFeeCap,
                 repeatedFreq |-> repeatedFreq, repeatedTotal |-> repeatedTotal]
    IN
    IF requestContextID \notin DOMAIN contexts
    THEN CtxFails("Update", "InvalidRequestContextID", requestContextID, args)
    ELSE LET requestContext == contexts[requestContextID] IN
         IF ~requestContext.repeated
         THEN CtxFails("Update", "RequestContextNonRepeated", requestContextID, args)
         ELSE IF Len(providers) > 0 /\ requestContext.responseThreshold > 0
                 /\ Len(providers) < requestContext.responseThreshold
         THEN CtxFails("Update", "InvalidProviders", requestContextID, args)
         ELSE IF repeatedFreq > 0 /\ FrequencyTooLow(repeatedFreq, requestContext.timeout)
         THEN CtxFails("Update", "InvalidRepeatedFreq", requestContextID, args)
         ELSE IF repeatedTotal >= 1 /\ repeatedTotal <= Int64(requestContext.batchCounter)
         THEN CtxFails("Update", "InvalidRepeatedTotal", requestContextID, args)
         ELSE CtxStores("Update", requestContextID, args,
                  UpdatedContext(requestContext, providers, repeatedFreq, repeatedTotal),
                  killed \ {requestContextID})

\* mutant: a context passes for started whatever its state
NotStartedNever(requestContext) == FALSE

\* requestContext.State != types.RequestContextState(0x00)
NotStarted(requestContext) == requestContext.state # RUNNING

PauseRequestContext(requestContextID) ==
    IF requestContextID \notin DOMAIN contexts
    THEN CtxFails("Pause", "InvalidRequestContextID", requestContextID, <<>>)
    ELSE LET requestContext == contexts[requestContextID] IN
         IF ~requestContext.repeated
         THEN CtxFails("Pause", "RequestContextNonRepeated", requestContextID, <<>>)
         ELSE IF NotStarted(requestContext)
         THEN CtxFails("Pause", "RequestContextNotStarted", requestContextID, <<>>)
         ELSE CtxStores("Pause", requestContextID, <<>>,
                        [requestContext EXCEPT !.state = PAUSED], killed)

\* mutant: a context passes for paused whatever its state
NotPausedNever(requestContext) == FALSE

\* requestContext.State != types.RequestContextState(0x01)
NotPaused(requestContext) == requestContext.state # PAUSED

StartRequestContext(requestContextID) ==
    IF requestContextID \notin DOMAIN contexts
    THEN CtxFails("Start", "InvalidRequestContextID", requestContextID, <<>>)
    ELSE LET requestContext == contexts[requestContextID] IN
         IF ~requestContext.repeated
         THEN CtxFails("Start", "RequestContextNonRepeated", requestContextID, <<>>)
         ELSE IF NotPaused(requestContext)
         THEN CtxFails("Start", "RequestContextNotPaused", requestContextID, <<>>)
         ELSE CtxStores("Start", requestContextID, <<>>,
                        [requestContext EXCEPT !.state = RUNNING], killed)

\* mutant: the state is left as it was
KilledContextNotPaused(requestContext) ==
    [requestContext EXCEPT !.repeatedTotal = Int64(requestContext.batchCounter)]

\* the context KillRequestContext stores
KilledContext(requestContext) ==
    [requestContext EXCEPT !.state = PAUSED,
                           !.repeatedTotal = Int64(requestContext.batchCounter)]

KillRequestContext(requestContextID) ==
    IF requestContextID \notin DOMAIN contexts
    THEN CtxFails("Kill", "InvalidRequestContextID", requestContextID, <<>>)
    ELSE LET requestContext == contexts[requestContextID] IN
         IF ~requestContext.repeated
         THEN CtxFails("Kill", "RequestContextNonRepeated", requestContextID, <<>>)
         ELSE CtxStores("Kill", requestContextID, <<>>, KilledContext(requestContext),
                        killed \cup {requestContextID})

----------------------------------------------------------------------------
(* The state after construction, and the request / fee specification *)

\* the AddRequest calls explored: <<consumer, provider, serviceFee, profiling>>
RequestInputs ==
    { <<"c1", "p1", 2, TRUE>>, <<"c2", "p2", 1, FALSE>>, <<"c2", "p1", 1, TRUE>>,
      <<"c1", "p3", 1, FALSE>>, <<"c1", "p4", 1, FALSE>> }

\* the IDs a caller may name: those of the requests made, and one of no request
KnownRequestIDs == {RequestID(requests[k]) : k \in DOMAIN requests} \cup {<<0, 0, 0>>}

\* the stores and balances after construction
StoresAfterConstruction ==
    /\ height = 1
    /\ contexts = EmptyStore
    /\ requests = EmptyStore
    /\ activeReqs = EmptyStore
    /\ expReqs = EmptyStore
    /\ responses = EmptyStore
    /\ incomingFees = EmptyStore
    /\ returnedFees = EmptyStore
    /\ bank = [a \in Accounts |-> IF a = "c1" THEN 3 ELSE IF a = "c2" THEN 1
                                   ELSE IF a = DepositAccount THEN 7 ELSE 0]
    /\ bindings = [p \in {"p1", "p2", "p3"} |->
                     [Available |-> p # "p3", Deposit |-> IF p = "p2" THEN 3 ELSE 2,
                      Pricing |-> 1]]
    /\ ret = Result("Init", OK, <<>>, "")
    /\ resolution = EmptyStore
    /\ killed = {}

Init ==
    /\ counter = 0
    /\ StoresAfterConstruction

\* the AddRequest calls of the engine specification: those that pass the
\* binding and profiler checks and so reach the counter allocation
EngineRequestInputs ==
    {r \in RequestInputs : r[2] \in {"p1", "p2"} /\ (r[4] => r[1] \in Profilers)}

Next ==
    \/ \E in \in EngineRequestInputs : AddRequest(in[1], in[2], in[3], in[4])
    \/ \E id \in KnownRequestIDs, p \in {"p1", "p2"} : AddResponse(id, p)
    \/ \E a \in {"p1", "p2"} : WithdrawFee(a)
    \/ \E a \in Consumers : RefundFee(a)
    \/ RefundReturnedFees
    \/ RefundIncomingFees
    \/ RefundServiceFees
    \/ EndBlock

Spec == Init /\ [][Next]_vars

----------------------------------------------------------------------------
(* The request specification: requests, responses and slashes within blocks
   that the scheduler never ends *)

\* the Slash calls explored: <<provider, slashCoins>>
SlashInputs == {"p1", "p2"} \X {1, 3}

ReqNext ==
    \/ \E in \in RequestInputs : AddRequest(in[1], in[2], in[3], in[4])
    \/ \E id \in KnownRequestIDs, p \in {"p1", "p2"} : AddResponse(id, p)
    \/ \E in \in SlashInputs : Slash(in[1], in[2])

ReqSpec == Init /\ [][ReqNext]_vars

----------------------------------------------------------------------------
(* The counter specification: every operation of the keeper within blocks that
   the scheduler never ends.  A block starts with the counter unset or, after
   MaxInt16 - 1 AddRequest calls that failed at the escrow transfer and so
   stored nothing but the counter, one allocation before the int16 maximum. *)

WrapInit ==
    /\ counter \in {0, MaxInt16 - 1}
    /\ StoresAfterConstruction

\* the AddRequest calls explored: <<consumer, provider, serviceFee, profiling>>
WrapRequestInputs == {<<"c1", "p1", 2, FALSE>>, <<"c1", "p3", 1, FALSE>>}

WrapNext ==
    \/ \E in \in WrapRequestInputs : AddRequest(in[1], in[2], in[3], in[4])
    \/ \E id \in KnownRequestIDs : AddResponse(id, "p1")
    \/ WithdrawFee("p1")
    \/ RefundFee("c1")
    \/ RefundReturnedFees
    \/ RefundIncomingFees
    \/ RefundServiceFees
    \/ Slash("p2", 1)
    \/ /\ DOMAIN contexts = {}
       /\ CreateRequestContext("svc", <<"p1">>, "c1", "in", 1, 0, TRUE, 0, 0, RUNNING, 0, "handler")
    \/ \E id \in DOMAIN contexts : UpdateRequestContext(id, <<>>, 0, 3, 0)
    \/ \E id \in DOMAIN contexts : PauseRequestContext(id)
    \/ \E id \in DOMAIN contexts : StartRequestContext(id)
    \/ \E id \in DOMAIN contexts : KillRequestContext(id)

WrapSpec == WrapInit /\ [][WrapNext]_vars

----------------------------------------------------------------------------
(* The fee accrual specification: requests fund the escrow account, and
   AddIncomingFee and WithdrawFee are called on their own *)

FeeNext ==
    \/ \E in \in RequestInputs : AddRequest(in[1], in[2], in[3], in[4])
    \/ \E a \in {"p1", "p2"}, coins \in 0..MaxFee :
          /\ FeeOf(incomingFees, a) + coins <= MaxFee
          /\ CallAddIncomingFee(a, coins)
    \/ \E a \in {"p1", "p2"} : WithdrawFee(a)

FeeSpec == Init /\ [][FeeNext]_vars

----------------------------------------------------------------------------
(* The request context specification: one block of context calls, with
   AddRequest moving the counter *)

\* the Create calls explored: <<timeout, repeated, frequency, total, state>>
CreateInputs ==
    { <<0, TRUE, 0, 0, RUNNING>>, <<2, TRUE, 3, 2, RUNNING>>, <<0, TRUE, 0, 2, PAUSED>>,
      <<2, TRUE, 1, 0, RUNNING>>, <<3, TRUE, 0, 0, RUNNING>>,
      <<-1, TRUE, 0, 0, RUNNING>>, <<-1, TRUE, 3, 0, RUNNING>>,
      <<0, FALSE, 3, 2, RUNNING>>, <<-1, FALSE, 1, -1, PAUSED>> }

\* the Update calls explored: <<providers, serviceFeeCap, frequency, total>>
UpdateInputs ==
    {<<<<>>, 0, f, 0>> : f \in {0, 1, 3}} \cup {<<<<>>, 0, 0, 2>>}

\* an ID under which no context is stored
NoContextID == <<0, 0>>

\* the context IDs a caller may name: those stored, and one of no context
KnownContextIDs == DOMAIN contexts \cup {NoContextID}

CtxNext ==
    \/ \E in \in CreateInputs :
          CreateRequestContext("svc", <<"p1", "p2">>, "c1", "in", 1, in[1], in[2], in[3],
                               in[4], in[5], 0, "handler")
    \/ \E sv \in {<<"nosvc", "in">>, <<"svc", "bad">>} :
          CreateRequestContext(sv[1], <<"p1">>, "c1", sv[2], 1, 1, FALSE, 0, 0, RUNNING, 0, "handler")
    \/ \E id \in DOMAIN contexts, in \in UpdateInputs :
          UpdateRequestContext(id, in[1], in[2], in[3], in[4])
    \/ UpdateRequestContext(NoContextID, <<>>, 0, 0, 2)
    \/ \E id \in KnownContextIDs : PauseRequestContext(id)
    \/ \E id \in KnownContextIDs : StartRequestContext(id)
    \/ \E id \in KnownContextIDs : KillRequestContext(id)
    \/ counter < MaxCtxCounter /\ AddRequest("c1", "p1", 1, FALSE)

CtxSpec == Init /\ [][CtxNext]_vars

----------------------------------------------------------------------------
(* The update specification: contexts with and without a response threshold,
   and Update calls that supply providers, a fee cap, a frequency or a total *)

\* the Create calls explored:
\* <<providers, serviceFeeCap, timeout, repeated, frequency, total, state, threshold>>
UpdCreateInputs ==
    { <<<<"p1", "p2">>, 1, 0, TRUE, 0, 0, RUNNING, 2>>,
      <<<<"p1">>, 1, 2, TRUE, 3, 2, PAUSED, 0>>,
      <<<<"p1">>, 1, 0, FALSE, 0, 0, RUNNING, 0>> }

\* the Update calls explored: <<providers, serviceFeeCap, frequency, total>>;
\* a fee cap of 0 stands for the empty sdk.Coins, no fee cap supplied
UpdInputs ==
    { <<<<"p2">>, 0, 0, 0>>, <<<<"p2", "p3">>, 2, 0, 0>>,
      <<<<>>, 0, 3, 0>>, <<<<>>, 0, 1, 0>>,
      <<<<>>, 0, 0, 3>>, <<<<>>, 0, 0, -1>>, <<<<>>, 0, 0, 0>> }

UpdNext ==
    \/ \E in \in UpdCreateInputs :
          CreateRequestContext("svc", in[1], "c1", "in", in[2], in[3], in[4], in[5],
                               in[6], in[7], in[8], "handler")
    \/ \E id \in DOMAIN contexts, in \in UpdInputs :
          UpdateRequestContext(id, in[1], in[2], in[3], in[4])
    \/ UpdateRequestContext(NoContextID, <<>>, 0, 3, 0)
    \/ counter < MaxCtxCounter /\ AddRequest("c1", "p1", 1, FALSE)

UpdSpec == Init /\ [][UpdNext]_vars

----------------------------------------------------------------------------
(* Properties of the request / response engine and the fee ledger *)

RECURSIVE SumFees(_)
SumFees(fees) ==
    IF DOMAIN fees = {} THEN 0
    ELSE LET a == CHOOSE x \in DOMAIN fees : TRUE IN fees[a] + SumFees(Del(fees, a))

RECURSIVE SumServiceFees(_)
SumServiceFees(store) ==
    IF DOMAIN store = {} THEN 0
    ELSE LET k == CHOOSE x \in DOMAIN store : TRUE
         IN  store[k].serviceFee + SumServiceFees(Del(store, k))

\* C1: the fee of every request made is resolved at most once: it is never
\* both returned to the consumer and credited to the provider, nor either twice.
C1_FeeResolvedOnce ==
    \A id \in DOMAIN resolution :
        resolution[id].consumer + resolution[id].provider <= 1

\* C2: conservation: the balance of the request escrow account equals the fees
\* of the active requests plus all IncomingFee plus all ReturnedFee records.
C2_Conservation ==
    bank[RequestAccount] =
        SumServiceFees(activeReqs) + SumFees(incomingFees) + SumFees(returnedFees)

\* C3: AddResponse is exactly-once per request ID: an AddResponse for an ID that
\* already has a response fails with RequestNotActive, writes no response record
\* and accrues no incoming fee.
C3_AddResponseOnce ==
    [][ (ret'.op = "AddResponse" /\ ret'.key \in DOMAIN responses)
          => /\ ret'.err = "RequestNotActive"
             /\ responses' = responses
             /\ incomingFees' = incomingFees
             /\ bank' = bank ]_vars

C3_Witness ==
    /\ ret.op = "AddResponse"
    /\ ret.err = "RequestNotActive"
    /\ ret.key \in DOMAIN responses

\* C4: AddResponse for an active request by an address other than its recorded
\* provider returns NotMatchingProvider and changes nothing: the request stays in
\* both active indices, no response, incoming fee or tax is written; and an
\* AddResponse by the recorded provider succeeds whenever the escrow holds the tax.
C4_WrongProviderRejected ==
    [][ (ret'.op = "AddResponse" /\ ret'.key \in DOMAIN expReqs)
          => LET req == expReqs[ret'.key] IN
             IF ret'.addr # req.provider
             THEN /\ ret'.err = "NotMatchingProvider"
                  /\ UNCHANGED <<height, counter, ctxVars, reqVars, feeVars, bindings>>
                  /\ ret'.key \in DOMAIN expReqs'
                  /\ GetActiveRequestKey(req) \in DOMAIN activeReqs'
                  /\ ret'.key \notin DOMAIN responses'
             ELSE HasCoins(bank, RequestAccount, TaxAmount(req.serviceFee))
                     => ret'.err = OK ]_vars

C4_Witness ==
    /\ ret.op = "AddResponse"
    /\ ret.err = "NotMatchingProvider"
    /\ ret.key \in DOMAIN expReqs
    /\ ret.addr # expReqs[ret.key].provider

\* C8: two requests made one after the other in the same block have IDs that
\* agree on expiration height and request height, and the counter of the second
\* is that of the first plus one.
C8_CountersConsecutive ==
    \A k1, k2 \in DOMAIN requests :
        LET r1 == requests[k1]
            r2 == requests[k2]
        IN  ( /\ r1.requestHeight = r2.requestHeight
              /\ r1.counter < r2.counter
              /\ ~\E k3 \in DOMAIN requests :
                     /\ requests[k3].requestHeight = r1.requestHeight
                     /\ r1.counter < requests[k3].counter
                     /\ requests[k3].counter < r2.counter )
            => /\ r2.counter = r1.counter + 1
               /\ r2.expirationHeight = r1.expirationHeight

\* C11: an AddRequest whose escrow transfer fails has persisted nothing: the
\* counter, the request record, both active indices and all balances are as
\* they were before the call.
C11_FailedEscrowWritesNothing ==
    [][ (ret'.op = "AddRequest" /\ ret'.err = "InsufficientCoins")
          => UNCHANGED <<counter, requests, activeReqs, expReqs, bank>> ]_vars

\* C12: a successful AddIncomingFee(provider, amount) moves exactly
\* floor(amount * ServiceFeeTax) from the escrow account to the tax account and
\* adds exactly amount - tax to the provider's IncomingFee record (created if
\* absent), touching no other balance or record; tax + net = amount.
C12_TaxAndNet ==
    [][ (ret'.op = "AddIncomingFee" /\ ret'.err = OK)
          => LET amount == ret'.args.coins
                 provider == ret'.addr
                 tax == bank'[TaxAccount] - bank[TaxAccount]
                 before == IF provider \in DOMAIN incomingFees
                           THEN incomingFees[provider] ELSE 0
             IN  /\ tax * ServiceFeeTax[2] <= amount * ServiceFeeTax[1]
                 /\ amount * ServiceFeeTax[1] < (tax + 1) * ServiceFeeTax[2]
                 /\ bank'[RequestAccount] = bank[RequestAccount] - tax
                 /\ \A a \in Accounts \ {RequestAccount, TaxAccount} : bank'[a] = bank[a]
                 /\ DOMAIN incomingFees' = DOMAIN incomingFees \cup {provider}
                 /\ incomingFees'[provider] = before + (amount - tax)
                 /\ \A q \in DOMAIN incomingFees \ {provider} :
                        incomingFees'[q] = incomingFees[q]
                 /\ tax + (incomingFees'[provider] - before) = amount ]_vars

\* an odd amount has been added to an existing record: 3 gives tax 1, net 2
C12_Witness ==
    /\ ret.op = "AddIncomingFee"
    /\ ret.err = OK
    /\ ret.args.coins = 3
    /\ bank[TaxAccount] >= 1
    /\ incomingFees[ret.addr] > 2

\* C18: an AddResponse for a request whose expiration height has been reached
\* (current height >= expirationHeight) fails with RequestNotActive and credits
\* nothing to the provider.
C18_ExpiredNotAnswerable ==
    [][ (ret'.op = "AddResponse" /\ height >= ret'.key[1])
          => /\ ret'.err = "RequestNotActive"
             /\ incomingFees' = incomingFees
             /\ bank' = bank ]_vars

\* C19: WithdrawFee(provider) fails with WithdrawFeeNotExists and moves nothing
\* when the provider has no IncomingFee record; otherwise it moves exactly the
\* recorded amount from the escrow account to the provider and deletes the
\* record, or, when the escrow account cannot pay, fails and keeps the record.
\* A WithdrawFee that directly follows a successful one for the same provider
\* fails with WithdrawFeeNotExists.
C19_WithdrawFee ==
    [][ /\ (ret.op = "WithdrawFee" /\ ret.err = OK /\ ret'.op = "WithdrawFee"
              /\ ret'.addr = ret.addr)
           => ret'.err = "WithdrawFeeNotExists"
        /\ ret'.op = "WithdrawFee"
          => LET provider == ret'.addr IN
             IF provider \notin DOMAIN incomingFees
             THEN /\ ret'.err = "WithdrawFeeNotExists"
                  /\ UNCHANGED <<bank, incomingFees>>
             ELSE IF ret'.err = OK
             THEN /\ bank'[RequestAccount] = bank[RequestAccount] - incomingFees[provider]
                  /\ bank'[provider] = bank[provider] + incomingFees[provider]
                  /\ \A a \in Accounts \ {RequestAccount, provider} : bank'[a] = bank[a]
                  /\ DOMAIN incomingFees' = DOMAIN incomingFees \ {provider}
                  /\ \A q \in DOMAIN incomingFees' : incomingFees'[q] = incomingFees[q]
             ELSE /\ bank[RequestAccount] < incomingFees[provider]
                  /\ UNCHANGED <<bank, incomingFees>> ]_vars

\* a provider has been paid an accrued fee of 2, and its record is gone
C19_Witness ==
    /\ ret.op = "WithdrawFee"
    /\ ret.err = OK
    /\ ret.addr \notin DOMAIN incomingFees
    /\ bank[ret.addr] = 2
    /\ bank[TaxAccount] >= 1

\* C21: the three views of a request agree: a request is in the provider's
\* active index exactly when it is in the expiration index, every request in
\* an active index has a primary record, and after a successful AddResponse the
\* request is in neither active index while its primary record is still there.
C21_ViewsConsistent ==
    /\ [](\A k \in DOMAIN activeReqs :
            GetRequestsByExpirationIndexKeyByReq(activeReqs[k]) \in DOMAIN expReqs)
    /\ [](\A e \in DOMAIN expReqs :
            /\ GetActiveRequestKey(expReqs[e]) \in DOMAIN activeReqs
            /\ activeReqs[GetActiveRequestKey(expReqs[e])] = expReqs[e]
            /\ GetRequestKey(expReqs[e]) \in DOMAIN requests
            /\ requests[GetRequestKey(expReqs[e])] = expReqs[e])
    /\ [](Cardinality(DOMAIN activeReqs) = Cardinality(DOMAIN expReqs))
    /\ [][ (ret'.op = "AddResponse" /\ ret'.err = OK)
            => LET req == expReqs[ret'.key] IN
               /\ GetActiveRequestKey(req) \notin DOMAIN activeReqs'
               /\ ret'.key \notin DOMAIN expReqs'
               /\ GetRequestKey(req) \in DOMAIN requests'
               /\ requests'[GetRequestKey(req)] = req ]_vars

\* one request has been answered and another of the same block is still active
C21_Witness ==
    /\ ret.op = "AddResponse"
    /\ ret.err = OK
    /\ ret.key \notin DOMAIN expReqs
    /\ Cardinality(DOMAIN requests) = 2
    /\ Cardinality(DOMAIN activeReqs) = 1
    /\ Cardinality(DOMAIN expReqs) = 1

\* C22: a successful Slash that leaves the deposit below the minimum deposit
\* stores the binding as unavailable; a binding whose deposit is below the
\* minimum is unavailable from then on, and every AddRequest to its provider
\* fails with ServiceBindingUnavailable, leaving the counter, the balances and
\* the request stores as they were; a Slash of more than the deposit panics
\* and changes neither the binding nor any balance.
C22_SlashDisables ==
    /\ [](\A p \in DOMAIN bindings :
            bindings[p].Deposit < getMinDeposit(bindings[p].Pricing)
                => ~bindings[p].Available)
    /\ [][ /\ \A p \in DOMAIN bindings :
                 /\ p \in DOMAIN bindings'
                 /\ bindings'[p].Deposit <= bindings[p].Deposit
                 /\ ~bindings[p].Available => ~bindings'[p].Available
           /\ (ret'.op = "AddRequest" /\ ret'.addr \in DOMAIN bindings
                  /\ ~bindings[ret'.addr].Available)
                => /\ ret'.err = "ServiceBindingUnavailable"
                   /\ UNCHANGED <<counter, bank, requests, activeReqs, expReqs>>
           /\ (ret'.op = "Slash" /\ ret'.args.slashCoins > bindings[ret'.key].Deposit)
                => /\ ret'.err = "panic"
                   /\ UNCHANGED <<bindings, bank>>
           /\ (ret'.op = "Slash" /\ ret'.err = OK)
                => /\ bindings'[ret'.key].Deposit =
                          bindings[ret'.key].Deposit - ret'.args.slashCoins
                   /\ bank'[DepositAccount] = bank[DepositAccount] - ret'.args.slashCoins ]_vars

\* after a Slash took p1's deposit below the minimum, an AddRequest to p1 has
\* been refused
C22_Witness ==
    /\ ret.op = "AddRequest"
    /\ ret.err = "ServiceBindingUnavailable"
    /\ ret.addr = "p1"
    /\ bindings["p1"].Deposit = 1
    /\ ~bindings["p1"].Available

\* C23: the intra-block counter is monotonic: every AddRequest that reaches
\* the allocation raises it by exactly one, the int16 maximum included, no
\* operation of the keeper lowers or resets it, and no two requests made at
\* the same height have the same counter value.
C23_CounterMonotonic ==
    /\ [](\A k1, k2 \in DOMAIN requests :
            (k1 # k2 /\ requests[k1].requestHeight = requests[k2].requestHeight)
                => requests[k1].counter # requests[k2].counter)
    /\ [][ /\ counter' >= counter
           /\ (ret'.op = "AddRequest" /\ ret'.err \in {OK, "InsufficientCoins"})
                => counter' = counter + 1 ]_vars

----------------------------------------------------------------------------
(* Properties of the request context manager *)

\* a context that may issue another batch
Eligible(ctx) ==
    /\ ctx.state = RUNNING
    /\ ctx.repeatedTotal <= 0 \/ ctx.repeatedTotal > ctx.batchCounter

\* C5: once killed, a context never becomes eligible to issue another batch
\* through Start and Pause calls.
C5_KilledNeverEligible ==
    \A id \in killed : ~Eligible(contexts[id])

\* C6: Kill on an existing repeated context succeeds from RUNNING and from PAUSED
\* and stores the context with state PAUSED and repeatedTotal = batchCounter, all
\* else unchanged; Kill on a missing or non-repeated context fails and changes
\* nothing.
C6_Kill ==
    [][ ret'.op = "Kill"
          => LET id == ret'.key IN
             IF id \in DOMAIN contexts /\ contexts[id].repeated
             THEN /\ ret'.err = OK
                  /\ DOMAIN contexts' = DOMAIN contexts
                  /\ \A other \in DOMAIN contexts \ {id} : contexts'[other] = contexts[other]
                  /\ contexts'[id].state = PAUSED
                  /\ contexts'[id].repeatedTotal = contexts[id].batchCounter
                  /\ contexts'[id] = [contexts[id] EXCEPT
                                         !.state = contexts'[id].state,
                                         !.repeatedTotal = contexts'[id].repeatedTotal]
             ELSE /\ ret'.err # OK
                  /\ contexts' = contexts ]_vars

C6_Witness ==
    /\ ret.op = "Kill"
    /\ ret.err = OK
    /\ contexts[ret.key].state = PAUSED
    /\ contexts[ret.key].repeatedTotal = contexts[ret.key].batchCounter
    /\ contexts[ret.key].repeatedFrequency = 3

\* C7: a successful Create returns an ID that no earlier Create of the block
\* returned, so it never overwrites a stored context.
C7_CreateNeverOverwrites ==
    [][ (ret'.op = "Create" /\ ret'.err = OK)
          => /\ ret'.key \notin DOMAIN contexts
             /\ \A id \in DOMAIN contexts : contexts'[id] = contexts[id] ]_vars

\* C9: every repeated context has repeatedFrequency >= timeout, as integers and
\* as the uint64 values the keeper compares.
C9_FrequencyAtLeastTimeout ==
    \A id \in DOMAIN contexts :
        contexts[id].repeated
            => /\ contexts[id].repeatedFrequency >= contexts[id].timeout
               /\ contexts[id].repeatedFrequency >= Uint64(contexts[id].timeout)

C9_Witness ==
    /\ ret.op = "Update"
    /\ ret.err = OK
    /\ contexts[ret.key].repeated
    /\ contexts[ret.key].repeatedFrequency = 3
    /\ \E id \in DOMAIN contexts :
          /\ contexts[id].repeated
          /\ contexts[id].repeatedFrequency = contexts[id].timeout
          /\ contexts[id].timeout = MaxRequestTimeout

\* C10: a non-repeated context is stored with repeatedFrequency = 0 and
\* repeatedTotal = 0, and Update, Pause, Start and Kill on it are rejected and
\* leave the contexts as they are.
C10_NonRepeatedZeroed ==
    /\ [](\A id \in DOMAIN contexts :
            ~contexts[id].repeated
                => contexts[id].repeatedFrequency = 0 /\ contexts[id].repeatedTotal = 0)
    /\ [][ ( /\ ret'.op \in {"Update", "Pause", "Start", "Kill"}
             /\ ret'.key \in DOMAIN contexts
             /\ ~contexts[ret'.key].repeated )
           => /\ ret'.err = "RequestContextNonRepeated"
              /\ contexts' = contexts ]_vars

C10_Witness ==
    /\ ret.op = "Update"
    /\ ret.err = "RequestContextNonRepeated"
    /\ ~contexts[ret.key].repeated
    /\ contexts[ret.key].repeatedFrequency = 0
    /\ contexts[ret.key].repeatedTotal = 0

\* C16: Pause succeeds exactly when the context exists, is repeated and is
\* RUNNING; it then changes the state to PAUSED and nothing else; in every other
\* case it returns an error and the contexts are unchanged.
C16_Pause ==
    [][ ret'.op = "Pause"
        => LET id == ret'.key IN
           IF id \in DOMAIN contexts /\ contexts[id].repeated /\ contexts[id].state = RUNNING
           THEN /\ ret'.err = OK
                /\ contexts'[id].state = PAUSED
                /\ contexts' = [contexts EXCEPT ![id].state = contexts'[id].state]
           ELSE /\ ret'.err # OK
                /\ contexts' = contexts ]_vars

\* a Pause of a RUNNING context with a total of 2 has succeeded
C16_Witness ==
    /\ ret.op = "Pause"
    /\ ret.err = OK
    /\ contexts[ret.key].state = PAUSED
    /\ contexts[ret.key].repeatedTotal = 2
    /\ ret.key \notin killed

\* C17: Start succeeds exactly when the context exists, is repeated and is
\* PAUSED; it then changes the state to RUNNING and nothing else; in every other
\* case it returns an error and the contexts are unchanged.
C17_Start ==
    [][ ret'.op = "Start"
        => LET id == ret'.key IN
           IF id \in DOMAIN contexts /\ contexts[id].repeated /\ contexts[id].state = PAUSED
           THEN /\ ret'.err = OK
                /\ contexts'[id].state = RUNNING
                /\ contexts' = [contexts EXCEPT ![id].state = contexts'[id].state]
           ELSE /\ ret'.err # OK
                /\ contexts' = contexts ]_vars

\* a Start of a PAUSED context with a frequency of 3 has succeeded
C17_Witness ==
    /\ ret.op = "Start"
    /\ ret.err = OK
    /\ contexts[ret.key].state = RUNNING
    /\ contexts[ret.key].repeatedFrequency = 3
    /\ ret.key \notin killed

\* C20: a Create with a timeout above MaxRequestTimeout is rejected and stores
\* nothing; a successful Create stores MaxRequestTimeout for a timeout of 0 and
\* any other timeout as given; no stored timeout exceeds MaxRequestTimeout.
C20_CreateTimeout ==
    /\ [](\A id \in DOMAIN contexts : contexts[id].timeout <= MaxRequestTimeout)
    /\ [][ ret'.op = "Create"
            => /\ ret'.args.timeout > MaxRequestTimeout
                    => ret'.err # OK /\ contexts' = contexts
               /\ ret'.err = OK
                    => contexts'[ret'.key].timeout =
                          IF ret'.args.timeout = 0 THEN MaxRequestTimeout
                          ELSE ret'.args.timeout ]_vars

\* a Create with a timeout of 0 has stored MaxRequestTimeout
C20_Witness ==
    /\ ret.op = "Create"
    /\ ret.err = OK
    /\ ret.args.timeout = 0
    /\ contexts[ret.key].timeout = MaxRequestTimeout

\* C24: every stored context has a timeout of at least 1 and at most
\* MaxRequestTimeout, repeated or not; Create stores no negative timeout.
C24_TimeoutPositive ==
    \A id \in DOMAIN contexts :
        /\ 1 <= contexts[id].timeout
        /\ contexts[id].timeout <= MaxRequestTimeout

\* C25: Create stores batchCounter = 0 and Create, Update, Pause, Start and
\* Kill never change it, so it is 0 in every stored context, and every
\* successful Kill stores repeatedTotal = 0.
C25_BatchCounterZero ==
    /\ [](\A id \in DOMAIN contexts : contexts[id].batchCounter = 0)
    /\ [][ \A id \in DOMAIN contexts :
              /\ id \in DOMAIN contexts'
              /\ contexts'[id].batchCounter = contexts[id].batchCounter ]_vars
    /\ [][ (ret'.op = "Kill" /\ ret'.err = OK)
              => contexts'[ret'.key].repeatedTotal = 0 ]_vars

\* a Kill has stored a total of 0 in one of two contexts; the other still has
\* its total of 2
C25_Witness ==
    /\ ret.op = "Kill"
    /\ ret.err = OK
    /\ contexts[ret.key].batchCounter = 0
    /\ contexts[ret.key].repeatedTotal = 0
    /\ \E id \in DOMAIN contexts \ {ret.key} :
          contexts[id].repeatedTotal = 2 /\ contexts[id].batchCounter = 0

----------------------------------------------------------------------------
(* Properties of Update *)

\* C13: an Update that supplies a nonzero total less than or equal to the
\* context's batchCounter, a negative one included, is rejected and leaves the
\* contexts unchanged; after a successful Update that supplied a nonzero total,
\* repeatedTotal > batchCounter.
C13_TotalAboveBatchCounter ==
    [][ ( /\ ret'.op = "Update"
          /\ ret'.key \in DOMAIN contexts
          /\ contexts[ret'.key].repeated
          /\ ret'.args.repeatedTotal # 0 )
        => IF ret'.args.repeatedTotal <= contexts[ret'.key].batchCounter
           THEN ret'.err # OK /\ contexts' = contexts
           ELSE ret'.err = OK
                   => contexts'[ret'.key].repeatedTotal > contexts'[ret'.key].batchCounter ]_vars

\* C14: a successful Update stores every field the caller supplied: non-empty
\* providers, a supplied fee cap, a nonzero frequency and a nonzero total.
C14_SuppliedFieldsStored ==
    [][ (ret'.op = "Update" /\ ret'.err = OK)
        => LET a == ret'.args
               c == contexts'[ret'.key]
           IN  /\ a.providers # <<>> => c.providers = a.providers
               /\ a.serviceFeeCap # 0 => c.serviceFeeCap = a.serviceFeeCap
               /\ a.repeatedFreq # 0 => c.repeatedFrequency = a.repeatedFreq
               /\ a.repeatedTotal # 0 => c.repeatedTotal = a.repeatedTotal ]_vars

\* C15: a successful Update leaves the providers, the frequency and the total
\* as they were when the caller supplied none, never changes service name,
\* consumer, input, timeout, repeated, batchCounter, state, responseThreshold or
\* responseHandler, and touches no other context; a failed Update leaves every
\* context unchanged.
C15_UpdateFrame ==
    [][ ret'.op = "Update"
        => IF ret'.err # OK
           THEN contexts' = contexts
           ELSE LET a == ret'.args
                    old == contexts[ret'.key]
                    new == contexts'[ret'.key]
                IN  /\ DOMAIN contexts' = DOMAIN contexts
                    /\ \A id \in DOMAIN contexts \ {ret'.key} : contexts'[id] = contexts[id]
                    /\ a.providers = <<>> => new.providers = old.providers
                    /\ a.repeatedFreq = 0 => new.repeatedFrequency = old.repeatedFrequency
                    /\ a.repeatedTotal = 0 => new.repeatedTotal = old.repeatedTotal
                    /\ new.serviceName = old.serviceName
                    /\ new.consumer = old.consumer
                    /\ new.input = old.input
                    /\ new.timeout = old.timeout
                    /\ new.repeated = old.repeated
                    /\ new.batchCounter = old.batchCounter
                    /\ new.state = old.state
                    /\ new.responseThreshold = old.responseThreshold
                    /\ new.responseHandler = old.responseHandler ]_vars

\* an Update that supplied only a frequency has kept a total set earlier, with
\* a second context stored
C15_Witness ==
    /\ ret.op = "Update"
    /\ ret.err = OK
    /\ ret.args.providers = <<>>
    /\ ret.args.repeatedFreq = 3
    /\ ret.args.repeatedTotal = 0
    /\ contexts[ret.key].repeatedTotal = 3
    /\ contexts[ret.key].providers = <<"p2", "p3">>
    /\ Cardinality(DOMAIN contexts) = 2

====
